---- MODULE Spec2Model ----
(***************************************************************************)
(* Model of flight_price_monitor.py: one pass of check_flights over the    *)
(* configured departure dates, the offer loop of fetch_flights_for_date,   *)
(* the history lookup get_previous_price, store_data and the subject line  *)
(* of send_email_summary.  Prices are whole dollars.                       *)
(***************************************************************************)
EXTENDS Integers, Sequences, FiniteSets, TLC

\* ------------------------------------------------------------------ bounds
MaxOffers == 2      \* raw offers the provider hands out in one behaviour

\* ----------------------------------------------------------- configuration
DEPARTURE_DATES == <<"2026-02-15", "2026-02-16">>
MAX_PRICE_FILTER == 700
MAX_PRICE_ALERT == 1200
MIN_SEATS_ALERT == 3
DESIGNATED_CARRIER == "JQ"

None == <<>>                 \* Python's None; a value v is <<v>>
Some(v) == <<v>>

\* ------------------------------------------------------------ input domain
\* A raw offer as the loop reads it.  wf = "ok": every required field is there;
\* wf = "noseg": no itinerary segment / flight number; wf = "noprice": no price
\* total.  seats = 0 is an offer without numberOfBookableSeats (offer.get(..., 0)).
Offer(carrier, cabin, price, seats) ==
    [wf |-> "ok", carrier |-> carrier, number |-> "7", cabin |-> cabin,
     price |-> price, seats |-> seats]

Offers ==
    {Offer("SQ", "ECONOMY", 0, 4),       \* a zero fare
     Offer("SQ", "ECONOMY", 700, 4),     \* at the ceiling
     Offer("SQ", "ECONOMY", 701, 4),     \* over the ceiling
     Offer("SQ", "BUSINESS", 700, 4),    \* business of another carrier
     Offer("SQ", "N/A", 700, 4),         \* no fare details
     Offer("JQ", "BUSINESS", 1200, 4),   \* at the alert price
     Offer("JQ", "BUSINESS", 1201, 4),   \* over the alert price, seats over the threshold
     Offer("JQ", "BUSINESS", 1201, 3),   \* seats at the threshold
     Offer("JQ", "BUSINESS", 1201, 0)}   \* seats not reported

MalformedOffers ==
    {[Offer("SQ", "ECONOMY", 0, 4) EXCEPT !.wf = "noseg"],
     [Offer("SQ", "ECONOMY", 0, 4) EXCEPT !.wf = "noprice"]}

AllOffers == Offers \cup MalformedOffers

\* Readings of the wall clock (datetime.utcnow): it may repeat and step back.
ClockReadings == {1, 2}

\* prices.db outlives the process and init_db keeps its rows (CREATE TABLE IF NOT
\* EXISTS): the table at start is empty or holds what an earlier run stored.
InitialTables ==
    {<<>>,
     <<[checked_at |-> 1, departure_date |-> DEPARTURE_DATES[1],
        flight_number |-> "SQ7", cabin |-> "ECONOMY", price |-> 700]>>}

SeqUpTo(S, n) == UNION {[1..k -> S] : k \in 0..n}

\* What one provider search call answers: an HTTP failure, or a list of offers.
Responses(n) ==
    {[ok |-> FALSE, data |-> <<>>]} \cup {[ok |-> TRUE, data |-> s] : s \in SeqUpTo(AllOffers, n)}

\* ------------------------------------------------------------------- state
VARIABLES
    pc,                   \* position of check_flights: idle, fetch, analysis, store, summary
    offersLeft,           \* raw offers the provider may still hand out
    dateIdx,              \* index into DEPARTURE_DATES of the date in progress
    all_offers,           \* economy_offers + business_offers of the call that just returned
    search_failed,        \* the searches of that call that raised inside get_offers
    flights,              \* the list fetch_flights_for_date returned for the date
    storeIdx,             \* position of the store loop in flights
    all_flights_by_date,  \* date -> returned list, this pass
    all_price_analysis,   \* date -> analysis, this pass
    db,                   \* table flight_prices; the row id is the position
    subject,              \* subject prefix of the notification of the last pass, or "none"
    lastPass,             \* how the last pass ended: none, completed, aborted
    abortCause,           \* what the pass-level boundary caught: none, auth, search, malformed, store
    abortDate,            \* index of the date in progress when the pass was aborted, else 0
    passStartLen          \* number of rows in db when the pass began

vars == <<pc, offersLeft, dateIdx, all_offers, search_failed, flights, storeIdx,
          all_flights_by_date, all_price_analysis, db, subject, lastPass, abortCause,
          abortDate, passStartLen>>

NoDict == [d \in {} |-> <<>>]

Init ==
    /\ pc = "idle"
    /\ offersLeft = MaxOffers
    /\ dateIdx = 0
    /\ all_offers = <<>>
    /\ search_failed = {}
    /\ flights = <<>>
    /\ storeIdx = 0
    /\ all_flights_by_date = NoDict
    /\ all_price_analysis = NoDict
    /\ db \in InitialTables
    /\ subject = "none"
    /\ lastPass = "none"
    /\ abortCause = "none"
    /\ abortDate = 0
    /\ passStartLen = Len(db)

\* ------------------------------------------------------------ pure helpers
FlightNo(carrier_code, number) == carrier_code \o number

UniqueKey(flight_no, cabin) == flight_no \o "_" \o cabin

\* "if not is_jq and is_business: continue"
Ineligible(carrier_code, cabin) ==
    carrier_code # DESIGNATED_CARRIER /\ cabin = "BUSINESS"

\* Mutant of AlreadySeen: the duplicate test never fires.
NeverSeen(unique_key, seen) == FALSE

\* "if unique_key in seen_flights: continue"
AlreadySeen(unique_key, seen) == unique_key \in seen

\* Mutant of OverCeiling: the ceiling is applied to every cabin.
OverCeilingAnyCabin(cabin, price) == price > MAX_PRICE_FILTER

\* "if not is_business and price > MAX_PRICE_FILTER: continue"
OverCeiling(cabin, price) == cabin # "BUSINESS" /\ price > MAX_PRICE_FILTER

\* "price_diff = 0; if prev_price: price_diff = price - prev_price"
PriceDiff(price, prev_price) ==
    IF prev_price # None /\ prev_price[1] # 0 THEN price - prev_price[1] ELSE 0

\* Rows of the table for one (flight_number, departure_date, cabin).
RowsOf(table, flight_no, departure_date, cabin) ==
    {i \in 1..Len(table) :
        /\ table[i].flight_number = flight_no
        /\ table[i].departure_date = departure_date
        /\ table[i].cabin = cabin}

\* get_previous_price: every value the call can return.  The read may fail
\* (None).  ORDER BY checked_at DESC LIMIT 1 names no order among rows with
\* equal checked_at, so any of the rows with the greatest checked_at may be the
\* one fetched.
GetPreviousPrice(table, flight_no, departure_date, cabin) ==
    LET rows == RowsOf(table, flight_no, departure_date, cabin)
        top == {i \in rows : \A j \in rows : table[j].checked_at <= table[i].checked_at}
    IN  {None} \cup {Some(table[i].price) : i \in top}

\* Mutant of InsertByPrice: an equal price is placed before, not after, its equals.
RECURSIVE InsertBeforeEquals(_, _)
InsertBeforeEquals(r, s) ==
    IF s = <<>> THEN <<r>>
    ELSE IF s[Len(s)].price < r.price THEN Append(s, r)
    ELSE Append(InsertBeforeEquals(r, SubSeq(s, 1, Len(s) - 1)), s[Len(s)])

\* list.sort(key=price): stable, ascending.
RECURSIVE InsertByPrice(_, _)
InsertByPrice(r, s) ==
    IF s = <<>> THEN <<r>>
    ELSE IF s[Len(s)].price <= r.price THEN Append(s, r)
    ELSE Append(InsertByPrice(r, SubSeq(s, 1, Len(s) - 1)), s[Len(s)])

RECURSIVE SortByPrice(_)
SortByPrice(s) ==
    IF s = <<>> THEN <<>>
    ELSE InsertByPrice(s[Len(s)], SortByPrice(SubSeq(s, 1, Len(s) - 1)))

\* get_offers: the provider's list, or [] when the request raised.
GetOffers(response) == IF response.ok THEN response.data ELSE <<>>

\* Mutant of GetOffersRaises: a failed search lets its exception out.
GetOffersPropagates(response) == ~response.ok

\* get_offers lets no exception out: "except Exception" prints and returns [].
GetOffersRaises(response) == FALSE

\* Mutant of InsertRow: a row of the same flight, date and cabin is overwritten.
UpsertRow(table, checked_at, flight_info) ==
    LET row == [checked_at |-> checked_at,
                departure_date |-> flight_info.departure_date,
                flight_number |-> flight_info.flight_number,
                cabin |-> flight_info.cabin,
                price |-> flight_info.price]
        old == {i \in 1..Len(table) :
                   /\ table[i].flight_number = row.flight_number
                   /\ table[i].departure_date = row.departure_date
                   /\ table[i].cabin = row.cabin}
    IN  IF old = {} THEN Append(table, row)
        ELSE [i \in 1..Len(table) |-> IF i \in old THEN row ELSE table[i]]

\* store_data: INSERT of one row; the id is the next position.  Of the sixteen
\* columns the row keeps those a query of the program reads, and the price.
InsertRow(table, checked_at, flight_info) ==
    Append(table, [checked_at |-> checked_at,
                   departure_date |-> flight_info.departure_date,
                   flight_number |-> flight_info.flight_number,
                   cabin |-> flight_info.cabin,
                   price |-> flight_info.price])

\* Mutant of IsAlert: the seat boundary is exclusive.
IsAlertSeatsBelow(flight) ==
    flight.price <= MAX_PRICE_ALERT \/ flight.seats < MIN_SEATS_ALERT

\* The alert test of send_email_summary on one record.
IsAlert(flight) == flight.price <= MAX_PRICE_ALERT \/ flight.seats <= MIN_SEATS_ALERT

RECURSIVE SumLen(_, _)
SumLen(dict, dates) ==
    IF dates = {} THEN 0
    ELSE LET d == CHOOSE x \in dates : TRUE
         IN  Len(dict[d]) + SumLen(dict, dates \ {d})

HasAlerts(by_date) ==
    \E d \in DOMAIN by_date : \E i \in 1..Len(by_date[d]) : IsAlert(by_date[d][i])

SubjectPrefix(by_date) ==
    IF SumLen(by_date, DOMAIN by_date) = 0 THEN "No Results"
    ELSE IF HasAlerts(by_date) THEN "ALERT"
    ELSE "Summary"

\* Mutant of SeenAfterDrop: the key is marked only when the offer is kept.
SeenOnlyWhenKept(seen, unique_key) == seen

\* seen_flights after an offer dropped by the ceiling: line 237 has already
\* added its key when line 244 drops it.
SeenAfterDrop(seen, unique_key) == seen \cup {unique_key}

\* The offer loop of fetch_flights_for_date, lines 206-288, from offer i on: every
\* result it can end with.  A result is the flights_data built, or raised = TRUE
\* when offer["itineraries"][0]["segments"][0] / segment["number"] (lines 211, 213)
\* or offer["price"]["total"] (line 239) is missing.
Raised == [raised |-> TRUE, flights_data |-> <<>>]

RECURSIVE OfferLoop(_, _, _, _, _, _)
OfferLoop(offers, i, seen_flights, flights_data, departure_date, table) ==
    IF i > Len(offers) THEN {[raised |-> FALSE, flights_data |-> flights_data]}
    ELSE LET offer == offers[i]
             carrier_code == offer.carrier
             flight_no == FlightNo(carrier_code, offer.number)
             cabin == offer.cabin
             unique_key == UniqueKey(flight_no, cabin)
             price == offer.price
             Record(prev_price) ==
                 [flight_number |-> flight_no,
                  carrier_code |-> carrier_code,
                  price |-> price,
                  prev_price |-> prev_price,
                  price_diff |-> PriceDiff(price, prev_price),
                  seats |-> offer.seats,
                  cabin |-> cabin,
                  departure_date |-> departure_date]
         IN  IF offer.wf = "noseg" THEN {Raised}
             ELSE IF Ineligible(carrier_code, cabin) \/ AlreadySeen(unique_key, seen_flights)
             THEN OfferLoop(offers, i + 1, seen_flights, flights_data, departure_date, table)
             ELSE IF offer.wf = "noprice" THEN {Raised}
             ELSE IF OverCeiling(cabin, price)
             THEN OfferLoop(offers, i + 1, SeenAfterDrop(seen_flights, unique_key),
                            flights_data, departure_date, table)
             ELSE UNION {OfferLoop(offers, i + 1, seen_flights \cup {unique_key},
                                   Append(flights_data, Record(prev_price)),
                                   departure_date, table) :
                         prev_price \in GetPreviousPrice(table, flight_no, departure_date, cabin)}

\* ----------------------------------------------------------------- actions
\* The pass-level "except Exception": the pass ends, its locals are gone.
Abort(cause) ==
    /\ pc' = "idle"
    /\ lastPass' = "aborted"
    /\ abortCause' = cause
    /\ abortDate' = dateIdx
    /\ subject' = "none"
    /\ dateIdx' = 0
    /\ all_offers' = <<>>
    /\ search_failed' = {}
    /\ flights' = <<>>
    /\ storeIdx' = 0
    /\ all_flights_by_date' = NoDict
    /\ all_price_analysis' = NoDict

\* check_flights begins; get_access_token answers.
GetAccessToken ==
    /\ pc = "idle"
    /\ pc' = "fetch"
    /\ dateIdx' = 1
    /\ lastPass' = "none"
    /\ abortCause' = "none"
    /\ abortDate' = 0
    /\ subject' = "none"
    /\ passStartLen' = Len(db)
    /\ UNCHANGED <<offersLeft, all_offers, search_failed, flights, storeIdx,
                   all_flights_by_date, all_price_analysis, db>>

\* check_flights begins; get_access_token raises (raise_for_status).
GetAccessTokenFails ==
    /\ pc = "idle"
    /\ passStartLen' = Len(db)
    /\ Abort("auth")
    /\ UNCHANGED <<offersLeft, db>>

\* fetch_flights_for_date returns: the two searches, the offer loop, the sort
\* (lines 201-296), and line 496.  all_offers and search_failed are kept until
\* the next step as the input of the call.
FetchFlightsForDate ==
    /\ pc = "fetch"
    /\ \E economy \in Responses(offersLeft) :
       \E business \in Responses(offersLeft - Len(economy.data)) :
       \E result \in OfferLoop(GetOffers(economy) \o GetOffers(business), 1, {}, <<>>,
                               DEPARTURE_DATES[dateIdx], db) :
          /\ ~GetOffersRaises(economy) /\ ~GetOffersRaises(business)
          /\ ~result.raised
          /\ all_offers' = GetOffers(economy) \o GetOffers(business)
          /\ offersLeft' = offersLeft - Len(economy.data) - Len(business.data)
          /\ search_failed' = (IF economy.ok THEN {} ELSE {"economy"})
                                 \cup (IF business.ok THEN {} ELSE {"business"})
          /\ flights' = SortByPrice(result.flights_data)
          /\ all_flights_by_date' =
                [d \in DOMAIN all_flights_by_date \cup {DEPARTURE_DATES[dateIdx]} |->
                    IF d = DEPARTURE_DATES[dateIdx] THEN SortByPrice(result.flights_data)
                    ELSE all_flights_by_date[d]]
    /\ pc' = "analysis"
    /\ UNCHANGED <<dateIdx, storeIdx, all_price_analysis, db, subject, lastPass,
                   abortCause, abortDate, passStartLen>>

\* fetch_flights_for_date raises: an offer lacks a required field (or a search
\* let its exception out).
FetchFlightsForDateRaises ==
    /\ pc = "fetch"
    /\ \E economy \in Responses(offersLeft) :
       \E business \in Responses(offersLeft - Len(economy.data)) :
          /\ offersLeft' = offersLeft - Len(economy.data) - Len(business.data)
          /\ IF GetOffersRaises(economy) \/ GetOffersRaises(business)
             THEN Abort("search")
             ELSE /\ Raised \in OfferLoop(GetOffers(economy) \o GetOffers(business), 1, {},
                                          <<>>, DEPARTURE_DATES[dateIdx], db)
                  /\ Abort("malformed")
    /\ UNCHANGED <<db, passStartLen>>

\* After the store loop of a date: the next date, or the summary.
AfterDate(idx) ==
    IF idx <= Len(flights) THEN /\ pc' = "store"
                                /\ dateIdx' = dateIdx
    ELSE IF dateIdx < Len(DEPARTURE_DATES) THEN /\ pc' = "fetch"
                                                /\ dateIdx' = dateIdx + 1
    ELSE /\ pc' = "summary"
         /\ dateIdx' = dateIdx

\* get_price_analysis, lines 499-505: metrics ("ok"), or an exception caught inside
\* ("error"), which returns the same unavailable analysis as an answer without
\* priceMetrics does.  The quartile and range copied onto the records are not kept.
GetPriceAnalysis ==
    /\ pc = "analysis"
    /\ \E answer \in {"ok", "error"} :
          all_price_analysis' =
                [d \in DOMAIN all_price_analysis \cup {DEPARTURE_DATES[dateIdx]} |->
                    IF d = DEPARTURE_DATES[dateIdx] THEN [available |-> answer = "ok"]
                    ELSE all_price_analysis[d]]
    /\ storeIdx' = 1
    /\ all_offers' = <<>>
    /\ search_failed' = {}
    /\ AfterDate(1)
    /\ UNCHANGED <<offersLeft, flights, all_flights_by_date, db, subject, lastPass,
                   abortCause, abortDate, passStartLen>>

\* store_data(flight) for the next record of the date; checked_at is a reading of
\* the wall clock (datetime.utcnow), which may repeat or step back.
StoreData ==
    /\ pc = "store"
    /\ storeIdx <= Len(flights)
    /\ \E checked_at \in ClockReadings : db' = InsertRow(db, checked_at, flights[storeIdx])
    /\ storeIdx' = storeIdx + 1
    /\ AfterDate(storeIdx + 1)
    /\ UNCHANGED <<offersLeft, all_offers, search_failed, flights, all_flights_by_date,
                   all_price_analysis, subject, lastPass, abortCause, abortDate,
                   passStartLen>>

\* store_data raises (sqlite3 error on connect, execute or commit): nothing is
\* written by this call and the pass-level boundary catches it.
StoreDataFails ==
    /\ pc = "store"
    /\ storeIdx <= Len(flights)
    /\ Abort("store")
    /\ UNCHANGED <<offersLeft, db, passStartLen>>

\* Lines 510-516: the summary and send_email_summary (a failed send is caught).
SendEmailSummary ==
    /\ pc = "summary"
    /\ subject' = SubjectPrefix(all_flights_by_date)
    /\ lastPass' = "completed"
    /\ pc' = "idle"
    /\ dateIdx' = 0
    /\ flights' = <<>>
    /\ storeIdx' = 0
    /\ all_flights_by_date' = NoDict
    /\ all_price_analysis' = NoDict
    /\ UNCHANGED <<offersLeft, all_offers, search_failed, db, abortCause, abortDate,
                   passStartLen>>

Next ==
    \/ GetAccessToken
    \/ GetAccessTokenFails
    \/ FetchFlightsForDate
    \/ FetchFlightsForDateRaises
    \/ GetPriceAnalysis
    \/ StoreData
    \/ StoreDataFails
    \/ SendEmailSummary

Spec == Init /\ [][Next]_vars

\* ------------------------------------------------------------------ claims
\* fetch_flights_for_date has just returned: all_offers is its input batch,
\* flights its result, db the table its lookups read.
Returned == pc = "analysis"

OfferKey(offer) == <<FlightNo(offer.carrier, offer.number), offer.cabin>>
RecordKey(flight) == <<flight.flight_number, flight.cabin>>

\* The position in the batch of the first offer with key k (0 if there is none).
FirstWithKey(k) ==
    LET hits == {j \in 1..Len(all_offers) : OfferKey(all_offers[j]) = k}
    IN  IF hits = {} THEN 0 ELSE CHOOSE j \in hits : \A h \in hits : j <= h

\* C1: the returned list has at most one record per (flight_number, cabin), and
\* a record carries the price, seats and carrier of the first offer of the batch
\* with its key.
C1_DedupFirstSeen ==
    Returned =>
        /\ \A i, j \in 1..Len(flights) :
              i # j => RecordKey(flights[i]) # RecordKey(flights[j])
        /\ \A i \in 1..Len(flights) :
              LET first == FirstWithKey(RecordKey(flights[i]))
              IN  /\ first > 0
                  /\ flights[i].price = all_offers[first].price
                  /\ flights[i].seats = all_offers[first].seats
                  /\ flights[i].carrier_code = all_offers[first].carrier

C1_Witness ==
    /\ Returned
    /\ Len(all_offers) = 2
    /\ OfferKey(all_offers[1]) = OfferKey(all_offers[2])
    /\ all_offers[1].price # all_offers[2].price
    /\ Len(flights) = 1
    /\ flights[1].price = all_offers[1].price

\* C2: a returned record of a cabin other than BUSINESS costs at most
\* MAX_PRICE_FILTER, and a BUSINESS offer of the designated carrier that is the
\* first of the batch with its key is in the returned list whatever its price.
C2_PriceCeiling ==
    Returned =>
        /\ \A i \in 1..Len(flights) :
              flights[i].cabin # "BUSINESS" => flights[i].price <= MAX_PRICE_FILTER
        /\ \A j \in 1..Len(all_offers) :
              (/\ all_offers[j].carrier = DESIGNATED_CARRIER
               /\ all_offers[j].cabin = "BUSINESS"
               /\ FirstWithKey(OfferKey(all_offers[j])) = j)
              => \E i \in 1..Len(flights) :
                    /\ RecordKey(flights[i]) = OfferKey(all_offers[j])
                    /\ flights[i].price = all_offers[j].price

C2_Witness ==
    /\ Returned
    /\ \E j \in 1..Len(all_offers) :
          all_offers[j].cabin # "BUSINESS" /\ all_offers[j].price > MAX_PRICE_FILTER
    /\ \E i \in 1..Len(flights) :
          /\ flights[i].carrier_code = DESIGNATED_CARRIER
          /\ flights[i].cabin = "BUSINESS"
          /\ flights[i].price > MAX_PRICE_FILTER

\* C3: a returned record of a carrier other than the designated one has cabin
\* ECONOMY.
C3_OthersEconomyOnly ==
    Returned =>
        \A i \in 1..Len(flights) :
            flights[i].carrier_code # DESIGNATED_CARRIER => flights[i].cabin = "ECONOMY"

\* C4: the returned list is non-decreasing by price, and records of equal price
\* are in the order in which their offers were first seen in the batch.
C4_SortedStable ==
    Returned =>
        \A i, j \in 1..Len(flights) :
            i < j =>
                /\ flights[i].price <= flights[j].price
                /\ flights[i].price = flights[j].price =>
                      FirstWithKey(RecordKey(flights[i])) < FirstWithKey(RecordKey(flights[j]))

C4_Witness ==
    /\ Returned
    /\ Len(flights) = 2
    /\ flights[1].price = flights[2].price
    /\ RecordKey(flights[1]) # RecordKey(flights[2])

\* C5: a record's price_diff is price - prev_price whenever the lookup returned
\* a prior price, whatever that price is; with no row for its key in the table
\* the record has no prior price and no delta.
C5_PriceDelta ==
    Returned =>
        \A i \in 1..Len(flights) :
            /\ flights[i].prev_price # None =>
                  flights[i].price_diff = flights[i].price - flights[i].prev_price[1]
            /\ RowsOf(db, flights[i].flight_number, flights[i].departure_date,
                      flights[i].cabin) = {} =>
                  flights[i].prev_price = None /\ flights[i].price_diff = 0

\* C6 as claimed: once a provider call of the pass has failed (a search of the
\* call that just returned, or a price analysis of this pass), the pass is over,
\* aborted.
AnalysisFailed == \E d \in DOMAIN all_price_analysis : ~all_price_analysis[d].available

C6_AnyProviderFailureAborts ==
    (search_failed # {} \/ AnalysisFailed) => (pc = "idle" /\ lastPass = "aborted")

\* C6 amended: of the provider calls only authentication aborts a pass, and then
\* no date was queried, no row appended and no notification produced; a failed
\* search is an empty list for its cabin and the call returns; after a failed
\* price analysis the pass goes on.
C6_OnlyAuthAborts ==
    /\ abortCause \in {"none", "auth", "malformed", "store"}
    /\ abortCause = "auth" =>
          /\ pc = "idle" /\ lastPass = "aborted"
          /\ abortDate = 0
          /\ Len(db) = passStartLen
          /\ subject = "none"
    /\ search_failed # {} => pc = "analysis"
    /\ search_failed = {"economy", "business"} => all_offers = <<>> /\ flights = <<>>
    /\ AnalysisFailed => pc \in {"fetch", "analysis", "store", "summary"}

C6_Witness ==
    /\ pc = "analysis"
    /\ dateIdx = 2
    /\ ~all_price_analysis[DEPARTURE_DATES[1]].available
    /\ search_failed = {"economy"}
    /\ Len(flights) = 1
    /\ Len(db) > passStartLen

\* C7: an offer that lacks a required field is skipped alone: it never ends the
\* pass.
C7_MalformedOfferSkipped == abortCause # "malformed"

DateIndex(departure_date) ==
    CHOOSE k \in 1..Len(DEPARTURE_DATES) : DEPARTURE_DATES[k] = departure_date

\* The rows appended by the current (or last) pass.
PassRows == (passStartLen + 1)..Len(db)

\* C8 as claimed: after a pass aborted at date d, none of the rows it appended
\* is of d or of a later date.
C8_NoRowOfAbortedDate ==
    lastPass = "aborted" =>
        \A i \in PassRows : DateIndex(db[i].departure_date) < abortDate

\* C8 amended: after a pass aborted at date d, none of the rows it appended is
\* of a later date, and one is of d only if store_data raised; no step changes
\* or removes a stored row, and the aborting step appends none.
AppendOnly ==
    /\ Len(db') >= Len(db)
    /\ SubSeq(db', 1, Len(db)) = db
    /\ (lastPass' = "aborted" /\ lastPass # "aborted") => db' = db

AbortedDateRows ==
    lastPass = "aborted" =>
        \A i \in PassRows :
            /\ DateIndex(db[i].departure_date) <= abortDate
            /\ DateIndex(db[i].departure_date) = abortDate => abortCause = "store"

C8_AbortFrame == []AbortedDateRows /\ [][AppendOnly]_vars

C8_Witness ==
    /\ lastPass = "aborted"
    /\ abortCause = "store"
    /\ abortDate = 2
    /\ \E i \in PassRows : DateIndex(db[i].departure_date) = 2
    /\ passStartLen > 0

\* C9: the notification of a pass has the ALERT subject exactly when a record of
\* some date has price <= MAX_PRICE_ALERT or seats <= MIN_SEATS_ALERT.
C9_AlertSubject ==
    [][pc = "summary" =>
          (subject' = "ALERT" <=>
              \E d \in DOMAIN all_flights_by_date :
                 \E i \in 1..Len(all_flights_by_date[d]) :
                    \/ all_flights_by_date[d][i].price <= MAX_PRICE_ALERT
                    \/ all_flights_by_date[d][i].seats <= MIN_SEATS_ALERT)]_vars

\* A pass at the notification step whose only alert is a seat count at the
\* threshold, on the second date.
C9_Witness ==
    /\ pc = "summary"
    /\ Len(all_flights_by_date[DEPARTURE_DATES[1]]) = 1
    /\ Len(all_flights_by_date[DEPARTURE_DATES[2]]) = 1
    /\ all_flights_by_date[DEPARTURE_DATES[1]][1].price > MAX_PRICE_ALERT
    /\ all_flights_by_date[DEPARTURE_DATES[1]][1].seats > MIN_SEATS_ALERT
    /\ all_flights_by_date[DEPARTURE_DATES[2]][1].price > MAX_PRICE_ALERT
    /\ all_flights_by_date[DEPARTURE_DATES[2]][1].seats = MIN_SEATS_ALERT

\* The row of a key the claim names: greatest checked_at, then greatest id.
LatestRow(flight_no, departure_date, cabin) ==
    LET rows == RowsOf(db, flight_no, departure_date, cabin)
    IN  CHOOSE i \in rows :
            \A j \in rows :
                \/ db[j].checked_at < db[i].checked_at
                \/ db[j].checked_at = db[i].checked_at /\ j <= i

\* C10: a prior price the lookup returned is the price of the row of the key
\* with the greatest checked_at and, among those, the greatest id.
C10_LatestRowWins ==
    Returned =>
        \A i \in 1..Len(flights) :
            flights[i].prev_price # None =>
                flights[i].prev_price[1] =
                    db[LatestRow(flights[i].flight_number, flights[i].departure_date,
                                 flights[i].cabin)].price

\* C11: when the first offer of the batch with a key of a cabin other than
\* BUSINESS costs more than MAX_PRICE_FILTER, the returned list has no record
\* for that key, whatever later offers with the key cost.
C11_SeenBeforeCeiling ==
    Returned =>
        \A j \in 1..Len(all_offers) :
            (/\ all_offers[j].cabin # "BUSINESS"
             /\ FirstWithKey(OfferKey(all_offers[j])) = j
             /\ all_offers[j].price > MAX_PRICE_FILTER)
            => \A i \in 1..Len(flights) :
                  RecordKey(flights[i]) # OfferKey(all_offers[j])

C11_Witness ==
    /\ Returned
    /\ Len(all_offers) = 2
    /\ OfferKey(all_offers[1]) = OfferKey(all_offers[2])
    /\ all_offers[1].cabin # "BUSINESS"
    /\ all_offers[1].price > MAX_PRICE_FILTER
    /\ all_offers[2].wf = "ok"
    /\ all_offers[2].price <= MAX_PRICE_FILTER
    /\ flights = <<>>

====
